---- MODULE Spec2Model ----
(***************************************************************************)
(* Lightpack sound visualizer: SoundManagerBase                            *)
(* (Software/src/SoundManagerBase.cpp).                                    *)
(*                                                                         *)
(* The model follows the spectrum-to-colour pipeline of applyFft and the   *)
(* handlers around it.  Representation choices:                            *)
(*                                                                         *)
(*  - A QColor is the triple <<red, green, blue>>.  A packed QRgb is the   *)
(*    four bytes <<alpha, red, green, blue>> of the 32 bit value, so the   *)
(*    literal 0 that initColors and the disabled branch store is           *)
(*    <<0,0,0,0>> and QColor::rgb() of an opaque colour is <<255,r,g,b>>.  *)
(*  - A magnitude m stands for a float raw with                            *)
(*    floor(sqrt(raw) * specHeight) = m.  The map is monotone, so the      *)
(*    maximum over a bucket commutes with it, and line 198 yields m - 4    *)
(*    whenever that is not negative.                                       *)
(*  - A spectrum (the contents of m_fft) is a flat base level with one     *)
(*    spike: [base, pos, spike], read through Mag.                         *)
(*  - pow(2, i*9.0/(N-1)) converted to size_t is the floor of the real     *)
(*    power, computed exactly by integer comparison k^q <= 2^p.  For N = 1 *)
(*    the exponent is 0.0/0 = NaN and the conversion is undefined: its     *)
(*    result is an input (NaNAsSizeT) of every run of the loop.            *)
(***************************************************************************)
EXTENDS Integers, Sequences, FiniteSets, TLC

(* ---- bounds of the model ---- *)
MaxLeds == 2
MaxBuckets == 12
MaxFrames == 5
LowMag == 12

(* ---- program constants ---- *)
specHeight == 1000
fftSize == 1024

VARIABLES
    m_isEnabled,                      \* capture running
    m_isInited,                       \* backend acquired
    m_device,
    m_minColor,
    m_maxColor,
    m_isLiquidMode,
    m_isSendDataOnlyIfColorsChanged,
    m_colors,                         \* QList<QRgb>
    m_peaks,                          \* QList<int>
    m_frames,
    m_fft,                            \* the spectrum last written by updateFft
    m_generator,                      \* LiquidColorGenerator: [running, color]
    disabledLeds,                     \* Settings: LEDs whose isLedEnabled is false
    last,                             \* history: the run of updateColors by the latest
                                      \* handler, NoUpdate if it ran none: its caller
                                      \* (op), what it emitted, the ranges it used,
                                      \* whether it repeats the spectrum and ranges of
                                      \* an emitting run by the handler just before,
                                      \* and the colour mode when the handler began;
                                      \* for setDevice and requestDeviceList the
                                      \* calls they made, each with m_isEnabled as
                                      \* the call found it (calls), and the
                                      \* deviceList signal they emitted (report)
    scan                              \* the run of applyFft's loop that is under
                                      \* way when the loop is followed channel by
                                      \* channel: the next channel i, the boundary
                                      \* b0, the flag changed and the largest index
                                      \* of m_fft read so far (top); Idle otherwise

vars == <<m_isEnabled, m_isInited, m_device, m_minColor, m_maxColor, m_isLiquidMode,
          m_isSendDataOnlyIfColorsChanged, m_colors, m_peaks, m_frames, m_fft,
          m_generator, disabledLeds, last, scan>>

(* ---- values ---- *)
Black == <<0, 0, 0>>
White == <<255, 255, 255>>
Amber == <<255, 128, 0>>
Teal == <<0, 64, 128>>

QRgbZero == <<0, 0, 0, 0>>
Rgb(c) == <<255, c[1], c[2], c[3]>>

Min(a, b) == IF a < b THEN a ELSE b
Max(a, b) == IF a > b THEN a ELSE b

(* ---- exact floor of 2^(p/q) ---- *)
Limb == 10^4

RECURSIVE MulCarry(_, _, _)
MulCarry(x, k, c) ==
    IF x = <<>>
    THEN IF c = 0 THEN <<>> ELSE <<c % Limb>> \o MulCarry(<<>>, k, c \div Limb)
    ELSE LET t == Head(x) * k + c
         IN  <<t % Limb>> \o MulCarry(Tail(x), k, t \div Limb)

RECURSIVE PowBig(_, _)
PowBig(k, q) == IF q = 0 THEN <<1>> ELSE MulCarry(PowBig(k, q - 1), k, 0)

RECURSIVE TwoToThe(_)
TwoToThe(p) == IF p <= 10 THEN <<2^p>> ELSE MulCarry(TwoToThe(p - 10), 2^10, 0)

RECURSIVE LeqFrom(_, _, _)
LeqFrom(a, b, j) ==
    IF j = 0 THEN TRUE
    ELSE IF a[j] # b[j] THEN a[j] < b[j] ELSE LeqFrom(a, b, j - 1)

BigLeq(a, b) == IF Len(a) # Len(b) THEN Len(a) < Len(b) ELSE LeqFrom(a, b, Len(a))

RECURSIVE RootSearch(_, _, _, _)
RootSearch(lo, hi, q, m) ==
    IF hi - lo <= 1 THEN lo
    ELSE LET mid == (lo + hi) \div 2
         IN  IF BigLeq(PowBig(mid, q), m) THEN RootSearch(mid, hi, q, m)
             ELSE RootSearch(lo, mid, q, m)

\* the largest k with k^q <= 2^p, that is floor(2^(p/q)), for q >= 1
\* (a whole exponent needs no search)
Pow2Floor(p, q) ==
    IF p % q = 0 THEN 2^(p \div q)
    ELSE RootSearch(2^(p \div q), 2^(p \div q + 1), q, TwoToThe(p))

\* floor(2^(p/q)) <= b, decided from 2^a <= 2^(p/q) < 2^(a+1), a = p div q,
\* where that is enough
PowAtMost(p, q, b) ==
    LET a == p \div q
    IN  IF 2^(a + 1) - 1 <= b THEN TRUE
        ELSE IF 2^a > b THEN FALSE
        ELSE Pow2Floor(p, q) <= b

(* ---- inputs ---- *)
\* magnitudes 0, 5, 12, 2000 display as 0, 1, 8 and (capped) 1000
ZeroSpectrum == [base |-> 0, pos |-> 1, spike |-> 0]
Spectra ==
    { ZeroSpectrum,
      [base |-> 12, pos |-> 1, spike |-> 12],
      [base |-> 5, pos |-> 2, spike |-> 2000] }
\* the spectra of a quiet room: no magnitude above LowMag
LowSpectra == {f \in Spectra : f.base <= LowMag /\ f.spike <= LowMag}

\* m_fft[k]
Mag(fft, k) == IF k = fft.pos THEN fft.spike ELSE fft.base

\* m_fft has fftSize elements (line 54): an index above fftSize - 1 reads
\* whatever lies behind the buffer
JunkMags == {0, 2000}
JunkReads(top) == IF top > fftSize - 1 THEN JunkMags ELSE {0}
ReadMag(fft, k, junk) == IF k <= fftSize - 1 THEN Mag(fft, k) ELSE junk

\* what the conversion of NaN to size_t may yield: 0, or a value past the
\* buffer (every value above fftSize - 1 is cut to fftSize - 1 by line 194)
NaNAsSizeT == {0, fftSize}
\* the exponent is NaN only with a single channel
NaNCasts(n) == IF n = 1 THEN NaNAsSizeT ELSE {0}

MinColorInputs == {Black, Teal}
MaxColorInputs == {White}
LiquidColors == {White, Amber}
LedInputs == -1 .. MaxLeds
\* the devices setDevice is called with
Devices == {0, 1}
\* what populateDeviceList of the backend fills in: the list and the recommended index
BackendReports ==
    { [devices |-> <<>>, recommended |-> -1],
      [devices |-> <<0, 1>>, recommended |-> 1] }
LedIndices == {0}

\* what Settings holds when initFromSettings reads it
SettingsProfiles ==
    { [device |-> 0, minColor |-> Black, maxColor |-> White, liquid |-> FALSE,
       onlyIfChanged |-> TRUE, leds |-> n] : n \in 0 .. MaxLeds }
    \cup
    { [device |-> 0, minColor |-> Teal, maxColor |-> White, liquid |-> TRUE,
       onlyIfChanged |-> FALSE, leds |-> MaxLeds] }

(* ---- SoundManagerBase::initColors ---- *)
\* mutant: the loop of line 231 appends one peak too few
initColorsPeaksShort(numberOfLeds) ==
    [colors |-> [i \in 1 .. numberOfLeds |-> QRgbZero],
     peaks  |-> [i \in 1 .. numberOfLeds - 1 |-> 0]]

initColors(numberOfLeds) ==
    [colors |-> [i \in 1 .. numberOfLeds |-> QRgbZero],
     peaks  |-> [i \in 1 .. numberOfLeds |-> 0]]

(* ---- SoundManagerBase::applyFft, one channel ---- *)
\* mutant: line 195 (at least one bin per channel) left out
BucketUpperNoMinWidth(i, n, b0, nan) ==
    LET p == IF n = 1 THEN nan ELSE Pow2Floor(9 * i, n - 1)
    IN  IF p > fftSize - 1 THEN fftSize - 1 ELSE p

\* lines 193-195: the exclusive upper boundary of channel i (0-based) of n
\* (the power is not worked out where its bounds already put it at or below b0)
BucketUpper(i, n, b0, nan) ==
    IF n # 1 /\ PowAtMost(9 * i, n - 1, b0) THEN b0 + 1
    ELSE LET p == IF n = 1 THEN nan ELSE Pow2Floor(9 * i, n - 1)
             c == IF p > fftSize - 1 THEN fftSize - 1 ELSE p
         IN  IF c <= b0 THEN b0 + 1 ELSE c

\* lines 188-196: the ranges <<b0, b1>> of the n channels, in order
RECURSIVE BucketRanges(_, _, _, _)
BucketRanges(i, n, b0, nan) ==
    IF i >= n THEN <<>>
    ELSE LET b1 == BucketUpper(i, n, b0, nan)
         IN  <<(<<b0, b1>>)>> \o BucketRanges(i + 1, n, b1, nan)

\* lines 192, 196-197: the largest magnitude of m_fft[1 + b0 .. b1]
BucketPeak(fft, b0, b1) ==
    LET S == {Mag(fft, 1 + b) : b \in b0 .. (b1 - 1)} \cup {0}
    IN  CHOOSE m \in S : \A x \in S : x <= m

\* mutant: the cap of line 199 left out
DisplayValNoCap(peak) ==
    LET val == peak - 4
    IN  IF val < 0 THEN 0 ELSE val

\* mutant: the floor of line 200 left out
DisplayValNoFloor(peak) ==
    LET val == peak - 4
    IN  IF val > specHeight THEN specHeight ELSE val

\* lines 198-200
DisplayVal(peak) ==
    LET val == peak - 4
    IN  IF val > specHeight THEN specHeight ELSE IF val < 0 THEN 0 ELSE val

\* mutant: the decrement of line 202 left out
DecayPeakNever(pk, frames) == IF pk < 0 THEN 0 ELSE pk

\* mutant: the decrement taken on every tick
DecayPeakEveryTick(pk, frames) == IF pk - 1 < 0 THEN 0 ELSE pk - 1

\* lines 202-203
DecayPeak(pk, frames) ==
    LET d == IF frames % 5 = 0 THEN pk - 1 ELSE pk
    IN  IF d < 0 THEN 0 ELSE d

\* line 204
RaisePeak(val, pk) == IF val > pk THEN val ELSE pk

\* mutant: the margin of line 205 dropped, a value at its peak is rescaled too
RescalesNoMargin(val, pk) == val <= pk

\* line 205: the condition of the rescale branch
Rescales(val, pk) == val < pk - 5

\* integer division of line 206.  By 0 it is undefined in C++; no reachable run
\* of the loop divides by 0 (the peak is above 5 when the branch is taken), and
\* the quotient is left at the dividend there.
Quot(a, b) == IF b = 0 THEN a ELSE a \div b

\* lines 205-206
ScaleVal(val, pk) == IF Rescales(val, pk) THEN Quot(val * specHeight, pk) ELSE val

\* lines 212-214: from + (to - from) * (val / (double)specHeight), cut to int.
\* The sum is never negative, so cutting is the floor; for the components the
\* model uses (0, 64, 128, 255) the double arithmetic gives exactly this.
Mix(from, to, val) == (from * specHeight + (to - from) * val) \div specHeight

\* mutant: liquid mode fades from the minimum colour instead of black
MapColorFromMin(liquid, minColor, maxColor, genColor, val) ==
    LET from == minColor
        to   == IF liquid THEN genColor ELSE maxColor
    IN  Rgb(<<Mix(from[1], to[1], val), Mix(from[2], to[2], val), Mix(from[3], to[3], val)>>)

\* lines 209-214, 217
MapColor(liquid, minColor, maxColor, genColor, val) ==
    LET from == IF liquid THEN Black ELSE minColor
        to   == IF liquid THEN genColor ELSE maxColor
    IN  Rgb(<<Mix(from[1], to[1], val), Mix(from[2], to[2], val), Mix(from[3], to[3], val)>>)

(* ---- SoundManagerBase::applyFft ---- *)
\* The loop's boundaries and bucket maxima depend only on the channel count,
\* the NaN conversion and the spectrum: they are tabulated once.
MaxChannels == Max(MaxLeds, MaxBuckets)
RangeTable ==
    [n \in 0 .. MaxChannels |-> [nan \in NaNAsSizeT |-> BucketRanges(0, n, 0, nan)]]
RangesUsed ==
    UNION { {RangeTable[n][nan][i] : i \in 1 .. n} : n \in 0 .. MaxChannels, nan \in NaNAsSizeT }
PeakTable ==
    [fft \in Spectra |-> [r \in RangesUsed |-> BucketPeak(fft, r[1], r[2])]]

isLedEnabled(i) == i \notin disabledLeds

\* The display value of channel i (1-based) before peak tracking, lines 192-200
ChannelVal(fft, ranges, i) == DisplayVal(PeakTable[fft][ranges[i]])

\* lines 185-222.  colors, peaks: m_colors, m_peaks as the call finds them;
\* frames: m_frames (already incremented); fft: m_fft (already refreshed)
applyFft(colors, peaks, frames, fft, liquid, nan) ==
    LET n == Len(colors)
        ranges == RangeTable[n][nan]
        pk(i) == RaisePeak(ChannelVal(fft, ranges, i), DecayPeak(peaks[i], frames))
        val(i) == ScaleVal(ChannelVal(fft, ranges, i), pk(i))
        rgb(i) == MapColor(liquid, m_minColor, m_maxColor, m_generator.color, val(i))
    IN  [colors  |-> [i \in 1 .. n |-> IF isLedEnabled(i - 1) THEN rgb(i) ELSE QRgbZero],
         peaks   |-> [i \in 1 .. n |-> pk(i)],
         changed |-> \E i \in 1 .. n : isLedEnabled(i - 1) /\ colors[i] # rgb(i),
         ranges  |-> ranges]

(* ---- SoundManagerBase::updateColors ---- *)
\* mutant: the gate ignored, every update emits
ShouldEmitAlways(colorsChanged, onlyIfChanged) == TRUE

\* mutant: the flag ignored, only a change emits
ShouldEmitOnChange(colorsChanged, onlyIfChanged) == colorsChanged

\* line 181
ShouldEmit(colorsChanged, onlyIfChanged) == colorsChanged \/ ~onlyIfChanged

\* mutant: an early return when there is no channel
updateColorsGuarded(op, liquid, fft, nan) ==
    IF Len(m_colors) = 0
    THEN /\ last' = [op |-> op, emits |-> <<>>, ranges |-> <<>>, repeats |-> FALSE,
                     wasLiquid |-> m_isLiquidMode,
                     calls |-> <<>>, report |-> <<>>]
         /\ UNCHANGED <<m_frames, m_fft, m_colors, m_peaks>>
    ELSE LET r == applyFft(m_colors, m_peaks, m_frames + 1, fft, liquid, nan)
         IN  /\ m_frames' = m_frames + 1
             /\ m_fft' = fft
             /\ m_colors' = r.colors
             /\ m_peaks' = r.peaks
             /\ last' = [op |-> op,
                         emits |-> IF ShouldEmit(r.changed, m_isSendDataOnlyIfColorsChanged)
                                   THEN <<r.colors>> ELSE <<>>,
                         ranges |-> r.ranges,
                         repeats |-> /\ last.op # ""
                                     /\ last.emits # <<>>
                                     /\ fft = m_fft
                                     /\ r.ranges = last.ranges,
                         wasLiquid |-> m_isLiquidMode,
                     calls |-> <<>>, report |-> <<>>]

\* lines 175-183, with updateFft delivering fft; op names the calling handler
updateColors(op, liquid, fft, nan) ==
    LET r == applyFft(m_colors, m_peaks, m_frames + 1, fft, liquid, nan)
    IN  /\ m_frames' = m_frames + 1
        /\ m_fft' = fft
        /\ m_colors' = r.colors
        /\ m_peaks' = r.peaks
        /\ last' = [op |-> op,
                    emits |-> IF ShouldEmit(r.changed, m_isSendDataOnlyIfColorsChanged)
                              THEN <<r.colors>> ELSE <<>>,
                    ranges |-> r.ranges,
                    repeats |-> /\ last.op # ""
                                /\ last.emits # <<>>
                                /\ fft = m_fft
                                /\ r.ranges = last.ranges,
                    wasLiquid |-> m_isLiquidMode,
                     calls |-> <<>>, report |-> <<>>]

\* no run of the loop is being followed
Idle == [i |-> -1, b0 |-> 0, changed |-> FALSE, top |-> 0]

\* a handler that did not run updateColors
NoUpdate ==
    [op |-> "", emits |-> <<>>, ranges |-> <<>>, repeats |-> FALSE, wasLiquid |-> FALSE,
     calls |-> <<>>, report |-> <<>>]

(* ---- handlers ---- *)
\* the periodic tick of the capture backend invokes the slot updateColors
TickFrom(spectra) ==
    /\ \E fft \in spectra, nan \in NaNCasts(Len(m_colors)) :
           updateColors("updateColors", m_isLiquidMode, fft, nan)
    /\ UNCHANGED <<m_isEnabled, m_isInited, m_device, m_minColor, m_maxColor,
                   m_isLiquidMode, m_isSendDataOnlyIfColorsChanged, m_generator,
                   disabledLeds, scan>>

Tick == m_frames < MaxFrames /\ TickFrom(Spectra)

setMinColor ==
    /\ \E color \in MinColorInputs : m_minColor' = color
    /\ last' = NoUpdate
    /\ UNCHANGED <<m_isEnabled, m_isInited, m_device, m_maxColor, m_isLiquidMode,
                   m_isSendDataOnlyIfColorsChanged, m_colors, m_peaks, m_frames, m_fft,
                   m_generator, disabledLeds, scan>>

setMaxColor ==
    /\ \E color \in MaxColorInputs : m_maxColor' = color
    /\ last' = NoUpdate
    /\ UNCHANGED <<m_isEnabled, m_isInited, m_device, m_minColor, m_isLiquidMode,
                   m_isSendDataOnlyIfColorsChanged, m_colors, m_peaks, m_frames, m_fft,
                   m_generator, disabledLeds, scan>>

\* mutant: m_generator.stop() of line 125 left out
setLiquidModeNoStop(state) ==
        /\ m_isLiquidMode' = state
        /\ IF state /\ m_isEnabled
           THEN /\ m_generator' = [m_generator EXCEPT !.running = TRUE]
                /\ last' = NoUpdate
                /\ UNCHANGED <<m_colors, m_peaks, m_frames, m_fft>>
           ELSE /\ UNCHANGED m_generator
                /\ IF m_isEnabled
                   THEN /\ m_frames < MaxFrames
                        /\ \E fft \in Spectra, nan \in NaNCasts(Len(m_colors)) :
                               updateColors("setLiquidMode", state, fft, nan)
                   ELSE /\ last' = NoUpdate
                        /\ UNCHANGED <<m_colors, m_peaks, m_frames, m_fft>>
        /\ UNCHANGED <<m_isEnabled, m_isInited, m_device, m_minColor, m_maxColor,
                       m_isSendDataOnlyIfColorsChanged, disabledLeds, scan>>

\* mutant: entering Liquid mode reinitialises the colours and peaks
setLiquidModeResets(state) ==
        /\ m_isLiquidMode' = state
        /\ IF state /\ m_isEnabled
           THEN /\ m_generator' = [m_generator EXCEPT !.running = TRUE]
                /\ last' = NoUpdate
                /\ m_colors' = initColors(Len(m_colors)).colors
                /\ m_peaks' = initColors(Len(m_colors)).peaks
                /\ UNCHANGED <<m_frames, m_fft>>
           ELSE /\ m_generator' = [m_generator EXCEPT !.running = FALSE]
                /\ IF m_isEnabled
                   THEN /\ m_frames < MaxFrames
                        /\ \E fft \in Spectra, nan \in NaNCasts(Len(m_colors)) :
                               updateColors("setLiquidMode", state, fft, nan)
                   ELSE /\ last' = NoUpdate
                        /\ UNCHANGED <<m_colors, m_peaks, m_frames, m_fft>>
        /\ UNCHANGED <<m_isEnabled, m_isInited, m_device, m_minColor, m_maxColor,
                       m_isSendDataOnlyIfColorsChanged, disabledLeds, scan>>

\* lines 118-129
setLiquidMode(state) ==
        /\ m_isLiquidMode' = state
        /\ IF state /\ m_isEnabled
           THEN /\ m_generator' = [m_generator EXCEPT !.running = TRUE]
                /\ last' = NoUpdate
                /\ UNCHANGED <<m_colors, m_peaks, m_frames, m_fft>>
           ELSE /\ m_generator' = [m_generator EXCEPT !.running = FALSE]
                /\ IF m_isEnabled
                   THEN /\ m_frames < MaxFrames
                        /\ \E fft \in Spectra, nan \in NaNCasts(Len(m_colors)) :
                               updateColors("setLiquidMode", state, fft, nan)
                   ELSE /\ last' = NoUpdate
                        /\ UNCHANGED <<m_colors, m_peaks, m_frames, m_fft>>
        /\ UNCHANGED <<m_isEnabled, m_isInited, m_device, m_minColor, m_maxColor,
                       m_isSendDataOnlyIfColorsChanged, disabledLeds, scan>>

setSendDataOnlyIfColorsChanged ==
    /\ \E state \in BOOLEAN : m_isSendDataOnlyIfColorsChanged' = state
    /\ last' = NoUpdate
    /\ UNCHANGED <<m_isEnabled, m_isInited, m_device, m_minColor, m_maxColor,
                   m_isLiquidMode, m_colors, m_peaks, m_frames, m_fft, m_generator,
                   disabledLeds, scan>>

\* mutant: nothing is reinitialised when the count is the one already set
setNumberOfLedsIfNew(numberOfLeds) ==
    /\ IF numberOfLeds = Len(m_colors)
       THEN UNCHANGED <<m_colors, m_peaks>>
       ELSE /\ m_colors' = initColors(numberOfLeds).colors
            /\ m_peaks' = initColors(numberOfLeds).peaks
    /\ last' = NoUpdate
    /\ UNCHANGED <<m_isEnabled, m_isInited, m_device, m_minColor, m_maxColor,
                   m_isLiquidMode, m_isSendDataOnlyIfColorsChanged, m_frames, m_fft,
                   m_generator, disabledLeds, scan>>

\* lines 143-148
setNumberOfLeds(numberOfLeds) ==
    /\ m_colors' = initColors(numberOfLeds).colors
    /\ m_peaks' = initColors(numberOfLeds).peaks
    /\ last' = NoUpdate
    /\ UNCHANGED <<m_isEnabled, m_isInited, m_device, m_minColor, m_maxColor,
                   m_isLiquidMode, m_isSendDataOnlyIfColorsChanged, m_frames, m_fft,
                   m_generator, disabledLeds, scan>>

\* lines 157-167; the generator's speed only paces its own timer (GeneratorTick)
initFromSettings(s) ==
    /\ m_device' = s.device
    /\ m_minColor' = s.minColor
    /\ m_maxColor' = s.maxColor
    /\ m_isLiquidMode' = s.liquid
    /\ m_isSendDataOnlyIfColorsChanged' = s.onlyIfChanged
    /\ m_colors' = initColors(s.leds).colors
    /\ m_peaks' = initColors(s.leds).peaks

\* lines 150-155
settingsProfileChanged ==
    /\ \E s \in SettingsProfiles : initFromSettings(s)
    /\ last' = NoUpdate
    /\ UNCHANGED <<m_isEnabled, m_isInited, m_frames, m_fft, m_generator, disabledLeds, scan>>

\* lines 169-173
reset ==
    /\ m_colors' = initColors(Len(m_colors)).colors
    /\ m_peaks' = initColors(Len(m_colors)).peaks
    /\ m_generator' = [m_generator EXCEPT !.color = White]
    /\ last' = NoUpdate
    /\ UNCHANGED <<m_isEnabled, m_isInited, m_device, m_minColor, m_maxColor,
                   m_isLiquidMode, m_isSendDataOnlyIfColorsChanged, m_frames, m_fft,
                   disabledLeds, scan>>

\* start(bool) of the platform backend, as a function of the engine state
\* st = [isEnabled, isInited, running]; init() may fail
startResult(st, isEnabled, initOk) ==
    IF isEnabled
    THEN IF st.isEnabled
         THEN st
         ELSE IF st.isInited \/ initOk
              THEN [isEnabled |-> TRUE, isInited |-> TRUE, running |-> m_isLiquidMode]
              ELSE st
    ELSE [isEnabled |-> FALSE, isInited |-> st.isInited, running |-> FALSE]

EngineState ==
    [isEnabled |-> m_isEnabled, isInited |-> m_isInited, running |-> m_generator.running]

start ==
    \E isEnabled \in BOOLEAN, initOk \in BOOLEAN :
        /\ LET st == startResult(EngineState, isEnabled, initOk)
           IN  /\ m_isEnabled' = st.isEnabled
               /\ m_isInited' = st.isInited
               /\ m_generator' = [m_generator EXCEPT !.running = st.running]
        /\ last' = NoUpdate
        /\ UNCHANGED <<m_device, m_minColor, m_maxColor, m_isLiquidMode,
                       m_isSendDataOnlyIfColorsChanged, m_colors, m_peaks, m_frames,
                       m_fft, disabledLeds, scan>>

\* mutant: the device assigned first, under the running capture
setDeviceHot(value) ==
    \E initOk \in BOOLEAN :
        LET enabled == m_isEnabled
            s1 == IF enabled THEN startResult(EngineState, FALSE, initOk) ELSE EngineState
            s2 == IF enabled THEN startResult(s1, TRUE, initOk) ELSE s1
        IN  /\ m_device' = value
            /\ m_isEnabled' = s2.isEnabled
            /\ m_isInited' = s2.isInited
            /\ m_generator' = [m_generator EXCEPT !.running = s2.running]
            /\ last' = [NoUpdate EXCEPT !.calls =
                            <<[call |-> "m_device", enabled |-> m_isEnabled]>>
                            \o (IF enabled
                                THEN <<[call |-> "start(false)", enabled |-> m_isEnabled],
                                       [call |-> "start(true)", enabled |-> s1.isEnabled]>>
                                ELSE <<>>)]
            /\ UNCHANGED <<m_minColor, m_maxColor, m_isLiquidMode,
                           m_isSendDataOnlyIfColorsChanged, m_colors, m_peaks, m_frames,
                           m_fft, disabledLeds, scan>>

\* lines 94-102
setDevice(value) ==
    \E initOk \in BOOLEAN :
        LET enabled == m_isEnabled
            s1 == IF enabled THEN startResult(EngineState, FALSE, initOk) ELSE EngineState
            s2 == IF enabled THEN startResult(s1, TRUE, initOk) ELSE s1
        IN  /\ m_device' = value
            /\ m_isEnabled' = s2.isEnabled
            /\ m_isInited' = s2.isInited
            /\ m_generator' = [m_generator EXCEPT !.running = s2.running]
            /\ last' = [NoUpdate EXCEPT !.calls =
                            (IF enabled
                             THEN <<[call |-> "start(false)", enabled |-> m_isEnabled]>>
                             ELSE <<>>)
                            \o <<[call |-> "m_device", enabled |-> s1.isEnabled]>>
                            \o (IF enabled
                                THEN <<[call |-> "start(true)", enabled |-> s1.isEnabled]>>
                                ELSE <<>>)]
            /\ UNCHANGED <<m_minColor, m_maxColor, m_isLiquidMode,
                           m_isSendDataOnlyIfColorsChanged, m_colors, m_peaks, m_frames,
                           m_fft, disabledLeds, scan>>

\* lines 76-92; init() of the backend succeeds or fails and, succeeding, leaves
\* the engine initialised
requestDeviceList ==
    \E initOk \in BOOLEAN, backend \in BackendReports :
        /\ IF ~m_isInited /\ ~initOk
           THEN /\ m_isEnabled' = FALSE
                /\ UNCHANGED m_isInited
                /\ last' = [NoUpdate EXCEPT !.calls =
                                <<[call |-> "init", enabled |-> m_isEnabled]>>]
           ELSE /\ m_isInited' = TRUE
                /\ UNCHANGED m_isEnabled
                /\ last' = [NoUpdate EXCEPT
                                !.calls =
                                    (IF m_isInited THEN <<>>
                                     ELSE <<[call |-> "init", enabled |-> m_isEnabled]>>)
                                    \o <<[call |-> "populateDeviceList",
                                           enabled |-> m_isEnabled]>>,
                                !.report = <<backend>>]
        /\ UNCHANGED <<m_device, m_minColor, m_maxColor, m_isLiquidMode,
                       m_isSendDataOnlyIfColorsChanged, m_colors, m_peaks, m_frames,
                       m_fft, m_generator, disabledLeds, scan>>

\* the running generator's own timer moves its colour on
GeneratorTick ==
    /\ m_generator.running
    /\ \E c \in LiquidColors \ {m_generator.color} :
           m_generator' = [m_generator EXCEPT !.color = c]
    /\ last' = NoUpdate
    /\ UNCHANGED <<m_isEnabled, m_isInited, m_device, m_minColor, m_maxColor,
                   m_isLiquidMode, m_isSendDataOnlyIfColorsChanged, m_colors, m_peaks,
                   m_frames, m_fft, disabledLeds, scan>>

\* the user switches one LED on or off in Settings
SetLedEnabled ==
    /\ \E i \in LedIndices, enabled \in BOOLEAN :
           disabledLeds' = IF enabled THEN disabledLeds \ {i} ELSE disabledLeds \cup {i}
    /\ last' = NoUpdate
    /\ UNCHANGED <<m_isEnabled, m_isInited, m_device, m_minColor, m_maxColor,
                   m_isLiquidMode, m_isSendDataOnlyIfColorsChanged, m_colors, m_peaks,
                   m_frames, m_fft, m_generator, scan>>

(* ---- specifications ---- *)
\* lines 51-55: the constructor, reading settings s
Constructed(s) ==
    /\ m_device = s.device
    /\ m_minColor = s.minColor
    /\ m_maxColor = s.maxColor
    /\ m_isLiquidMode = s.liquid
    /\ m_isSendDataOnlyIfColorsChanged = s.onlyIfChanged
    /\ m_colors = initColors(s.leds).colors
    /\ m_peaks = initColors(s.leds).peaks
    /\ m_isEnabled = FALSE
    /\ m_isInited = FALSE
    /\ m_frames = 0
    /\ m_fft = ZeroSpectrum
    /\ m_generator = [running |-> FALSE, color |-> White]
    /\ disabledLeds = {}
    /\ last = NoUpdate
    /\ scan = Idle

Init == \E s \in SettingsProfiles : Constructed(s)

Next ==
    \/ Tick
    \/ setMinColor
    \/ setMaxColor
    \/ \E state \in BOOLEAN : setLiquidMode(state)
    \/ setSendDataOnlyIfColorsChanged
    \/ \E numberOfLeds \in LedInputs : setNumberOfLeds(numberOfLeds)
    \/ settingsProfileChanged
    \/ reset
    \/ start
    \/ GeneratorTick
    \/ SetLedEnabled

Spec == Init /\ [][Next]_vars

\* The engine with its device handlers: starting and stopping, switching the
\* device, listing the devices, mode switches and settings reloads.
NextDevices ==
    \/ start
    \/ \E value \in Devices : setDevice(value)
    \/ requestDeviceList
    \/ \E state \in BOOLEAN : setLiquidMode(state)
    \/ settingsProfileChanged

SpecDevices == Init /\ [][NextDevices]_vars

(* ---- updateColors with the loop of applyFft followed channel by channel ---- *)
\* the channel counts at the end of the spectrum buffer: F - 1 and F
ScanLeds == {fftSize - 1, fftSize}

\* lines 177-189: m_frames++, updateFft, and the loop's variables set up
applyFftBegin ==
    /\ scan = Idle
    /\ m_frames = 0
    /\ m_frames' = m_frames + 1
    /\ \E fft \in Spectra : m_fft' = fft
    /\ scan' = [i |-> 0, b0 |-> 0, changed |-> FALSE, top |-> 0]
    /\ UNCHANGED <<m_isEnabled, m_isInited, m_device, m_minColor, m_maxColor,
                   m_isLiquidMode, m_isSendDataOnlyIfColorsChanged, m_colors, m_peaks,
                   m_generator, disabledLeds, last>>

\* lines 190-220: one pass of the loop body, for channel scan.i
applyFftChannel ==
    /\ scan # Idle
    /\ scan.i < Len(m_colors)
    /\ \E nan \in NaNCasts(Len(m_colors)) :
         LET i == scan.i
             b1 == BucketUpper(i, Len(m_colors), scan.b0, nan)
         IN  \E junk \in JunkReads(b1) :
               LET S == {ReadMag(m_fft, 1 + b, junk) : b \in scan.b0 .. (b1 - 1)} \cup {0}
                   peak == CHOOSE m \in S : \A x \in S : x <= m
                   val == DisplayVal(peak)
                   pk == RaisePeak(val, DecayPeak(m_peaks[i + 1], m_frames))
                   rgb == MapColor(m_isLiquidMode, m_minColor, m_maxColor,
                                   m_generator.color, ScaleVal(val, pk))
               IN  /\ m_peaks' = [m_peaks EXCEPT ![i + 1] = pk]
                   /\ m_colors' = [m_colors EXCEPT
                                       ![i + 1] = IF isLedEnabled(i) THEN rgb ELSE QRgbZero]
                   /\ scan' = [i |-> i + 1,
                               b0 |-> b1,
                               changed |-> scan.changed
                                           \/ (isLedEnabled(i) /\ m_colors[i + 1] # rgb),
                               top |-> b1]
    /\ UNCHANGED <<m_isEnabled, m_isInited, m_device, m_minColor, m_maxColor,
                   m_isLiquidMode, m_isSendDataOnlyIfColorsChanged, m_frames, m_fft,
                   m_generator, disabledLeds, last>>

\* lines 221, 180-182: the loop is through, updateColors emits or not
applyFftEnd ==
    /\ scan # Idle
    /\ scan.i >= Len(m_colors)
    /\ last' = [NoUpdate EXCEPT
                    !.op = "updateColors",
                    !.emits = IF ShouldEmit(scan.changed, m_isSendDataOnlyIfColorsChanged)
                              THEN <<m_colors>> ELSE <<>>,
                    !.wasLiquid = m_isLiquidMode]
    /\ scan' = Idle
    /\ UNCHANGED <<m_isEnabled, m_isInited, m_device, m_minColor, m_maxColor,
                   m_isLiquidMode, m_isSendDataOnlyIfColorsChanged, m_colors, m_peaks,
                   m_frames, m_fft, m_generator, disabledLeds>>

InitScan ==
    \E n \in ScanLeds :
        Constructed([device |-> 0, minColor |-> Black, maxColor |-> White,
                     liquid |-> FALSE, onlyIfChanged |-> TRUE, leds |-> n])

NextScan == applyFftBegin \/ applyFftChannel \/ applyFftEnd

SpecScan == InitScan /\ [][NextScan]_vars

\* The bucketizer on its own: constructed for 1 .. MaxBuckets channels, then ticks.
InitBuckets ==
    \E n \in 1 .. MaxBuckets :
        Constructed([device |-> 0, minColor |-> Black, maxColor |-> White,
                     liquid |-> FALSE, onlyIfChanged |-> TRUE, leds |-> n])

SpecBuckets == InitBuckets /\ [][Tick]_vars

\* The room goes quiet: MaxFrames ticks of low spectra, then silence for as long
\* as a peak of DisplayVal(LowMag) needs to decay.
DecayFrames == MaxFrames + 5 * (DisplayVal(LowMag) + 1)
LoudTick == m_frames < MaxFrames /\ TickFrom(LowSpectra)
QuietTick == m_frames >= MaxFrames /\ m_frames < DecayFrames /\ TickFrom({ZeroSpectrum})
NextDecay == LoudTick \/ QuietTick

SpecDecay == Init /\ [][NextDecay]_vars /\ WF_vars(QuietTick)

(* ---- properties ---- *)
\* updateColors ran during the step
UpdateRan == m_frames' # m_frames
Emitted(l) == l.emits # <<>>

\* the ranges of the latest run are contiguous from bin offset 0 and none is empty
RangesChained(r) ==
    /\ Len(r) >= 1 => r[1][1] = 0
    /\ \A i \in 1 .. Len(r) : r[i][2] >= r[i][1] + 1
    /\ \A i \in 2 .. Len(r) : r[i][1] = r[i - 1][2]

AllPeaksZero == \A i \in 1 .. Len(m_peaks) : m_peaks[i] = 0
\* an enabled channel shows a colour that some update computed and that is lit
SomeChannelLit ==
    \E i \in 1 .. Len(m_colors) :
        isLedEnabled(i - 1) /\ m_colors[i] # QRgbZero /\ m_colors[i] # Rgb(Black)
\* the update of this step changed the colour of an enabled channel (line 215)
ColorsChanged ==
    \E i \in 1 .. Len(m_colors) : isLedEnabled(i - 1) /\ m_colors'[i] # m_colors[i]
\* two runs of updateColors by consecutive handlers, the second a tick that finds
\* the spectrum of the first, with change-gating on
SameSpectrumAgain ==
    /\ last.op # ""
    /\ last'.op = "updateColors"
    /\ UpdateRan
    /\ m_fft' = m_fft
    /\ m_isSendDataOnlyIfColorsChanged

C3_Ungated ==
    [][(UpdateRan /\ last'.op = "updateColors" /\ ~m_isSendDataOnlyIfColorsChanged
            /\ Len(m_colors) # 0)
           => /\ Len(last'.emits) = 1
              /\ last'.emits[1] = m_colors'
              /\ Len(last'.emits[1]) = Len(m_colors)]_vars

\* C3 witness: nothing changed (the spectrum and the colours repeat), still emitted
C3_Witness ==
    /\ last.op = "updateColors"
    /\ ~m_isSendDataOnlyIfColorsChanged
    /\ Len(m_colors) = MaxLeds
    /\ last.repeats
    /\ m_frames % 5 # 0
    /\ Len(last.emits) = 1

C5_Reinit ==
    [][/\ \A n \in LedInputs :
              setNumberOfLeds(n) =>
                  /\ Len(m_colors') = Max(n, 0)
                  /\ Len(m_peaks') = Max(n, 0)
                  /\ \A i \in 1 .. Len(m_colors') : m_colors'[i] = QRgbZero
                  /\ \A i \in 1 .. Len(m_peaks') : m_peaks'[i] = 0
       /\ (UpdateRan /\ AllPeaksZero) =>
              \A i \in 1 .. Len(m_peaks') :
                  m_peaks'[i] = ChannelVal(m_fft', last'.ranges, i)]_vars

\* C5 witness: running, a loud spectrum was seen, and peaks and colours are all 0
C5_Witness ==
    /\ m_isEnabled
    /\ m_frames > 0
    /\ m_fft # ZeroSpectrum
    /\ last = NoUpdate
    /\ Len(m_peaks) = MaxLeds
    /\ Len(m_colors) = MaxLeds
    /\ AllPeaksZero
    /\ \A i \in 1 .. Len(m_colors) : m_colors[i] = QRgbZero

LiquidToGradient == setLiquidMode(FALSE) /\ m_isLiquidMode /\ m_isEnabled

\* C6 as stated: setLiquidMode(false) in Liquid mode while Running stops the
\* generator and emits exactly once, even with unchanged colours and gating on.
C6_Original ==
    [][LiquidToGradient => (~m_generator'.running /\ Len(last'.emits) = 1)]_vars

\* C6 amended: setLiquidMode(false) in Liquid mode while Running stops the
\* generator and runs updateColors exactly once, which emits at most once: it emits
\* when change-gating is off or the recomputed colour of an enabled channel differs
\* from the stored one, and emits nothing otherwise.
C6_Recompute ==
    [][LiquidToGradient
           => /\ ~m_generator'.running
              /\ m_frames' = m_frames + 1
              /\ last'.op = "setLiquidMode"
              /\ Len(last'.emits) <= 1
              /\ Emitted(last') <=> (~m_isSendDataOnlyIfColorsChanged \/ ColorsChanged)]_vars

\* C6 witness: switched out of Liquid while Running, a channel lit, nothing emitted
C6_Witness ==
    /\ last.op = "setLiquidMode"
    /\ last.wasLiquid
    /\ m_isEnabled
    /\ ~m_isLiquidMode
    /\ ~m_generator.running
    /\ m_isSendDataOnlyIfColorsChanged
    /\ SomeChannelLit
    /\ ~Emitted(last)

\* C7: every stored peak is within 0 .. specHeight, in every reachable state.
C7_PeakRange ==
    \A i \in 1 .. Len(m_peaks) : m_peaks[i] >= 0 /\ m_peaks[i] <= specHeight

\* C7 witness: a magnitude above the cap was seen and the peak sits at specHeight,
\* while another channel's peak lies strictly inside the range
C7_Witness ==
    /\ m_fft.spike > specHeight + 4
    /\ \E i \in 1 .. Len(m_peaks) : m_peaks[i] = specHeight
    /\ \E i \in 1 .. Len(m_peaks) : m_peaks[i] > 0 /\ m_peaks[i] < specHeight

\* C8: m_peaks and m_colors are always of one length, the channel count
\* (m_colors.size() is the only channel count the code keeps).
C8_Lengths ==
    /\ Len(m_peaks) = Len(m_colors)
    /\ DOMAIN m_peaks = DOMAIN m_colors

\* C8 witness: after ticks and a recompute by setLiquidMode, with every channel in use
C8_Witness ==
    /\ last.op = "setLiquidMode"
    /\ m_frames >= 2
    /\ Len(m_colors) = MaxLeds
    /\ Len(m_peaks) = MaxLeds

\* C9: while the spectrum stays all-zero no peak increases from one update to the
\* next, a peak that is 0 stays 0, and (ticks continuing) every peak reaches 0.
C9_Decay ==
    /\ [][(UpdateRan /\ m_fft' = ZeroSpectrum)
              => \A i \in 1 .. Len(m_peaks) :
                     /\ m_peaks'[i] <= m_peaks[i]
                     /\ m_peaks[i] = 0 => m_peaks'[i] = 0]_vars
    /\ (m_frames >= MaxFrames) ~> AllPeaksZero

\* C9 witness: well into the silence a peak has decayed from 8 down to 1
C9_Witness ==
    /\ m_fft = ZeroSpectrum
    /\ m_frames > MaxFrames + 5
    /\ \E i \in 1 .. Len(m_peaks) : m_peaks[i] = 1

\* the intensity handed to the colour mapping for channel i by the update of this step
Intensity(i) == ScaleVal(ChannelVal(m_fft', last'.ranges, i), m_peaks'[i])
FromColor == IF m_isLiquidMode' THEN Black ELSE m_minColor
ToColor == IF m_isLiquidMode' THEN m_generator.color ELSE m_maxColor

\* C10: in both colour modes an update gives a disabled channel the packed value 0,
\* an enabled channel of intensity 0 exactly the from colour and one of intensity
\* specHeight exactly the to colour; (from, to) is (minColor, maxColor) in
\* Gradient mode and (black, the generator's current colour) in Liquid mode.
C10_Endpoints ==
    [][UpdateRan =>
           \A i \in 1 .. Len(m_colors') :
               /\ ~isLedEnabled(i - 1) => m_colors'[i] = QRgbZero
               /\ (isLedEnabled(i - 1) /\ Intensity(i) = 0)
                      => m_colors'[i] = Rgb(FromColor)
               /\ (isLedEnabled(i - 1) /\ Intensity(i) = specHeight)
                      => m_colors'[i] = Rgb(ToColor)]_vars

\* C10 witness: Liquid mode, LED 0 disabled and dark, LED 1 at full intensity in
\* the generator's colour, with a minimum colour that is not black
C10_Witness ==
    /\ last.op = "updateColors"
    /\ m_isLiquidMode
    /\ m_minColor = Teal
    /\ m_generator.color = Amber
    /\ Len(m_colors) = 2
    /\ ~isLedEnabled(0)
    /\ m_colors[1] = QRgbZero
    /\ m_colors[2] = Rgb(Amber)

\* the display value of channel i in the update of this step, and its decayed peak
NewVal(i) == ChannelVal(m_fft', last'.ranges, i)

\* C12: whenever an update takes the rescale branch for a channel (val below the
\* peak by more than 5) the peak it divides by is strictly positive.
C12_NoDivisionByZero ==
    [][UpdateRan =>
           \A i \in 1 .. Len(m_peaks') :
               Rescales(NewVal(i), m_peaks'[i]) => m_peaks'[i] > 0]_vars

\* C12 witness: an update rescaled the value 0 of a channel against a small peak
C12_Witness ==
    /\ last.op = "updateColors"
    /\ \E i \in 1 .. Len(m_peaks) :
           /\ ChannelVal(m_fft, last.ranges, i) = 0
           /\ Rescales(0, m_peaks[i])
           /\ m_peaks[i] <= DisplayVal(LowMag)

\* C13: with change-gating on, an update emits exactly when some element of the
\* new ColorState differs from the ColorState before it, a channel that turned
\* black because its LED was disabled included.
C13_EmitIffDiffers ==
    [][(UpdateRan /\ m_isSendDataOnlyIfColorsChanged)
           => (Emitted(last') <=> m_colors' # m_colors)]_vars

\* C15: with one channel the single bucket is the whole bin range 1 .. F-1 (the
\* channel's raw value is the maximum over all these bins), the upper boundary
\* being well defined.
C15_SingleBucket ==
    (last.op # "" /\ Len(m_colors) = 1) => last.ranges = <<(<<0, fftSize - 1>>)>>

\* C16: the generator runs only while Liquid mode is active and the engine is
\* enabled.
C16_GeneratorRunning ==
    m_generator.running => (m_isLiquidMode /\ m_isEnabled)

\* C17: on every update and for every channel the peak becomes
\* max(val, max(0, old - d)), d = 1 when the incremented tick counter is a
\* multiple of 5 and d = 0 otherwise; so off the fifth ticks a peak not below val
\* is unchanged.
C17_PeakRule ==
    [][UpdateRan =>
           /\ Len(m_peaks') = Len(m_peaks)
           /\ \A i \in 1 .. Len(m_peaks) :
                  LET d == IF m_frames' % 5 = 0 THEN 1 ELSE 0
                  IN  /\ m_peaks'[i] = Max(NewVal(i), Max(0, m_peaks[i] - d))
                      /\ (d = 0 /\ NewVal(i) <= m_peaks[i]) => m_peaks'[i] = m_peaks[i]]_vars

\* C17 witness: the fifth tick took a peak of 8 down to 7
C17_Witness ==
    /\ last.op = "updateColors"
    /\ m_frames % 5 = 0
    /\ \E i \in 1 .. Len(m_peaks) :
           m_peaks[i] = 7 /\ ChannelVal(m_fft, last.ranges, i) < 7

Between(x, a, b) == Min(a, b) <= x /\ x <= Max(a, b)

\* C18: on every update the intensity of every channel lies in 0 .. specHeight,
\* and each colour component of an enabled channel lies between the from and the
\* to component, so within 0 .. 255.
C18_Intensity ==
    [][UpdateRan =>
           \A i \in 1 .. Len(m_colors') :
               /\ Intensity(i) >= 0
               /\ Intensity(i) <= specHeight
               /\ isLedEnabled(i - 1) =>
                      \A k \in 1 .. 3 :
                          /\ Between(m_colors'[i][k + 1], FromColor[k], ToColor[k])
                          /\ m_colors'[i][k + 1] >= 0
                          /\ m_colors'[i][k + 1] <= 255]_vars

\* C18 witness: a rescaled value gave an enabled channel a red component strictly
\* between the ends
C18_Witness ==
    /\ last.op = "updateColors"
    /\ \E i \in 1 .. Len(m_colors) :
           /\ isLedEnabled(i - 1)
           /\ Rescales(ChannelVal(m_fft, last.ranges, i), m_peaks[i])
           /\ m_colors[i][2] > 0
           /\ m_colors[i][2] < 255

\* the peaks of this step are those of one ordinary update tick
PeaksOfOneTick ==
    /\ m_frames' = m_frames + 1
    /\ \E fft \in Spectra, nan \in NaNCasts(Len(m_colors)) :
           m_peaks' = applyFft(m_colors, m_peaks, m_frames + 1, fft, FALSE, nan).peaks

\* C19: setLiquidMode(true) leaves every peak, every stored colour and the tick
\* counter unchanged and emits nothing; setLiquidMode(false) either does the same
\* (engine disabled) or changes the peaks as one ordinary update tick does.
C19_PeaksKept ==
    [][/\ setLiquidMode(TRUE)
              => (UNCHANGED <<m_peaks, m_colors, m_frames>> /\ ~Emitted(last'))
       /\ setLiquidMode(FALSE)
              => \/ UNCHANGED <<m_peaks, m_colors, m_frames>> /\ ~Emitted(last')
                 \/ PeaksOfOneTick]_vars

\* C19 witness: the engine left Liquid mode on a silent spectrum and a peak is
\* still at specHeight
C19_Witness ==
    /\ last.op = "setLiquidMode"
    /\ last.wasLiquid
    /\ ~m_isLiquidMode
    /\ m_fft = ZeroSpectrum
    /\ \E i \in 1 .. Len(m_peaks) : m_peaks[i] = specHeight

\* requestDeviceList ran as the latest handler, and its init() failed
ListRequested ==
    last.calls # <<>> /\ last.calls[1].call \in {"init", "populateDeviceList"}
InitFailed == Len(last.calls) = 1 /\ last.calls[1].call = "init"

\* C11: requestDeviceList sends exactly one device-list report: after a failed
\* init() the engine is Disabled and the report is empty with no recommended
\* index, otherwise the report is the backend's.
C11_DeviceReport ==
    ListRequested =>
        /\ Len(last.report) = 1
        /\ InitFailed =>
               /\ ~m_isEnabled
               /\ last.report[1] = [devices |-> <<>>, recommended |-> -1]
        /\ ~InitFailed => last.report[1] \in BackendReports

CallNames(calls) == [k \in 1 .. Len(calls) |-> calls[k].call]

\* C20: setDevice(value) leaves m_isEnabled as it was and stores the device; an
\* enabled engine is stopped, given the device and started again, in that order,
\* so the device is assigned while the capture is not running; a disabled engine
\* only gets the device.
C20_SetDevice ==
    [][\A value \in Devices :
           setDevice(value) =>
               /\ m_isEnabled' = m_isEnabled
               /\ m_device' = value
               /\ CallNames(last'.calls) =
                      IF m_isEnabled THEN <<"start(false)", "m_device", "start(true)">>
                      ELSE <<"m_device">>
               /\ \A k \in 1 .. Len(last'.calls) :
                      last'.calls[k].call = "m_device" => ~last'.calls[k].enabled]_vars

\* C20 witness: a running engine in Liquid mode was moved to device 1 and runs again
C20_Witness ==
    /\ CallNames(last.calls) = <<"start(false)", "m_device", "start(true)">>
    /\ m_device = 1
    /\ m_isEnabled
    /\ m_generator.running

\* C14: every bin index the bucketizer reads lies within 1 .. F-1, also when the
\* channel count reaches the spectrum size and every channel is forced to one bin.
C14_ReadsInBuffer == scan.top <= fftSize - 1

====
